---------------------------- MODULE Spec2Model ----------------------------
(***************************************************************************)
(* CLAHE on the lightness channel, as implemented by                       *)
(*   src/server/clahe_opencv_headless.py  (engine "exact")                 *)
(*   src/server/numpy_clahe.py            (engine "numpy")                 *)
(*                                                                         *)
(* One behaviour is one call of apply_clahe_processing: RGB -> LAB, the    *)
(* 8-bit L grid, the CLAHE engine (per-tile histogram, clip, redistribute, *)
(* CDF, lookup table; then the per-pixel bilinear remap), the write-back   *)
(* of L, LAB -> RGB, and the returned result dictionary.                   *)
(*                                                                         *)
(* Floating-point values are modelled as exact rationals <<n, d>> (d > 0,  *)
(* lowest terms); casts to integers (int(), astype(np.uint8)) truncate as  *)
(* the code does.  Out-of-range casts, whose outcome depends on the        *)
(* platform and the numpy version, are resolved by the variable build,     *)
(* which fixes an outcome the first time the run meets such an operation.  *)
(***************************************************************************)
EXTENDS Integers, Sequences, FiniteSets, TLC

(***************************************************************************)
(* Bounds of the model and program constants                               *)
(***************************************************************************)
MaxH == 4
MaxW == 2
MaxStreak == 1

Bins == 256
Uint8Max == 255

\* tile_grid_size values tried (0 is the "G < 1" case)
GridSizes == {0, 2}
\* clip_limit values tried, as rationals: 0.5, 1.0 and 256.0
ClipLimits == {<<1, 2>>, <<1, 1>>, <<256, 1>>}
\* RGB8 pixel values an input image is made of
Palette == {<<0, 0, 0>>, <<200, 50, 50>>, <<128, 128, 128>>}
Engines == {"exact", "numpy"}
\* the driver scripts under src/server that take <input_path> <output_path>
\* <clip_limit> <tile_grid_size>
Scripts == {"numpy_clahe", "clahe_opencv_headless", "clahe_exact", "clahe_processor"}
\* the largest number of command-line arguments given to a script
MaxArgs == 5
ArgCounts == 3 .. MaxArgs

(***************************************************************************)
(* Exact rational arithmetic (the model of float arithmetic)               *)
(***************************************************************************)
Abs(n) == IF n < 0 THEN -n ELSE n
Min(a, b) == IF a <= b THEN a ELSE b
Max(a, b) == IF a >= b THEN a ELSE b

RECURSIVE GCD(_, _)
GCD(a, b) == IF b = 0 THEN a ELSE GCD(b, a % b)

Rat(n, d) ==
    LET s == IF d < 0 THEN -1 ELSE 1
        g == GCD(Abs(n), Abs(d))
    IN  <<(s * n) \div g, (s * d) \div g>>
RInt(n) == <<n, 1>>
RAdd(p, q) == Rat(p[1] * q[2] + q[1] * p[2], p[2] * q[2])
RSub(p, q) == Rat(p[1] * q[2] - q[1] * p[2], p[2] * q[2])
RMul(p, q) == Rat(p[1] * q[1], p[2] * q[2])
RLe(p, q) == p[1] * q[2] <= q[1] * p[2]
RLt(p, q) == p[1] * q[2] < q[1] * p[2]
RMin(p, q) == IF RLe(p, q) THEN p ELSE q
RMax(p, q) == IF RLe(q, p) THEN p ELSE q
\* math.floor / np.floor
RFloor(p) == p[1] \div p[2]
\* int(x), and astype of an in-range value: truncation toward zero
RTrunc(p) == IF p[1] >= 0 THEN p[1] \div p[2] ELSE -((-p[1]) \div p[2])

(***************************************************************************)
(* Outcomes of operations whose result depends on the platform or on the   *)
(* numpy version (numpy engine only):                                      *)
(*   cast   : astype(np.uint8) of a float outside [0, 255] is undefined in *)
(*            C; it wraps modulo 256 or saturates.                         *)
(*   assign : storing a Python int outside [0, 255] into a uint8 array     *)
(*            wraps modulo 256 (numpy 1.x) or raises OverflowError         *)
(*            (numpy 2.x).                                                 *)
(***************************************************************************)
Builds == [cast : {"wrap", "saturate"}, assign : {"wrap", "raise"}]
\* nothing observed yet of the build the run executes on
UnknownBuild == [cast |-> "unknown", assign |-> "unknown"]
\* the builds that agree with what the run has observed so far
Resolutions(b) ==
    {r \in Builds : b.cast \in {"unknown", r.cast} /\ b.assign \in {"unknown", r.assign}}

\* the builds that agree with b and fix the outcome of the float cast
CastResolutions(b) ==
    {[b EXCEPT !.cast = c] : c \in (IF b.cast = "unknown" THEN {"wrap", "saturate"} ELSE {b.cast})}

\* the builds that agree with b and fix the outcome of the integer store
AssignResolutions(b) ==
    {[b EXCEPT !.assign = a] : a \in (IF b.assign = "unknown" THEN {"wrap", "raise"} ELSE {b.assign})}

\* a float whose cast to uint8 is out of range
OutOfUint8(p) == RTrunc(p) < 0 \/ RTrunc(p) > Uint8Max

\* astype(np.uint8) of a float value
AsUint8(p, b) ==
    LET t == RTrunc(p)
    IN  IF t >= 0 /\ t <= Uint8Max THEN t
        ELSE IF b.cast = "wrap" THEN t % (Uint8Max + 1)
        ELSE IF t < 0 THEN 0 ELSE Uint8Max

(***************************************************************************)
(* Colour conversion.  The transcendental steps (gamma, cube root) are     *)
(* tabulated for the colours of Palette, in thousandths, as computed by    *)
(* the code of each file.                                                  *)
(***************************************************************************)
\* clahe_opencv_headless.py rgb_to_lab_exact
rgb_to_lab_exact(rgb) ==
    CASE rgb = <<0, 0, 0>>       -> [L |-> 0,     a |-> 0,     b |-> 0]
      [] rgb = <<200, 50, 50>>   -> [L |-> 45352, a |-> 58197, b |-> 36487]
      [] rgb = <<128, 128, 128>> -> [L |-> 53585, a |-> 0,     b |-> 0]

\* numpy_clahe.py rgb_to_lab (np.dot(rgb, M) without the transpose)
rgb_to_lab(rgb) ==
    CASE rgb = <<0, 0, 0>>       -> [L |-> 0,     a |-> 0,      b |-> 0]
      [] rgb = <<200, 50, 50>>   -> [L |-> 55394, a |-> 10746,  b |-> 22916]
      [] rgb = <<128, 128, 128>> -> [L |-> 57779, a |-> -54512, b |-> 3179]

\* lab_array after the conversion: L as a rational, a and b in thousandths
ToLab(e, rgb) ==
    LET t == IF e = "exact" THEN rgb_to_lab_exact(rgb) ELSE rgb_to_lab(rgb)
    IN  [L |-> Rat(t.L, 1000), a |-> t.a, b |-> t.b]

\* l_channel: lab_array[:, :, 0].astype(np.uint8)  (headless, line 214)
\*            ((L + 16) / 116 * 255).astype(np.uint8)  (numpy, line 163)
LScaled(e, lab) ==
    IF e = "exact" THEN lab.L
    ELSE RMul(RMul(RAdd(lab.L, RInt(16)), Rat(1, 116)), RInt(255))
ExtractL(e, lab, b) == AsUint8(LScaled(e, lab), b)

\* a write-back that stores the enhanced grid into channel 1 as well
PutBackLWrongChannel(e, lab, v) ==
    [lab EXCEPT !.L = RInt(v), !.a = v * 1000]

\* the L written back: enhanced_l.astype(np.float32)  (headless, line 220)
\*                     enhanced_l / 255.0 * 116 - 16  (numpy, line 169)
PutBackL(e, lab, v) ==
    IF e = "exact" THEN [lab EXCEPT !.L = RInt(v)]
    ELSE [lab EXCEPT !.L = RSub(RMul(Rat(v, 255), RInt(116)), RInt(16))]

(***************************************************************************)
(* Tile geometry                                                           *)
(***************************************************************************)
\* an extent whose size is n // g, not rounded up
TileExtentFloorSize(n, g, t) ==
    [start |-> t * (n \div g), end |-> Min(t * (n \div g) + (n \div g), n)]

\* headless lines 19-26, 34-37: extent [start, end) of tile t along one axis
\* of length n (n // g is used for the start, the rounded-up size for the end)
TileExtentExact(n, g, t) ==
    LET size  == (n \div g) + (IF n % g # 0 THEN 1 ELSE 0)
        start == t * (n \div g)
    IN  [start |-> start, end |-> Min(start + size, n)]

\* numpy lines 73-74, 82-85
TileExtentNumpy(n, g, t) ==
    LET size  == n \div g
        start == t * size
    IN  [start |-> start, end |-> Min(start + size, n)]

TileExtent(e, n, g, t) ==
    IF e = "exact" THEN TileExtentExact(n, g, t) ELSE TileExtentNumpy(n, g, t)

\* the pixels of image[y_start:y_end, x_start:x_end]
TilePixels(e, h, w, g, ty, tx) ==
    LET ey == TileExtent(e, h, g, ty)
        ex == TileExtent(e, w, g, tx)
    IN  {p \in (0 .. h - 1) \X (0 .. w - 1) :
            /\ ey.start <= p[1] /\ p[1] < ey.end
            /\ ex.start <= p[2] /\ p[2] < ex.end}

(***************************************************************************)
(* Histogram, clipping, redistribution                                     *)
(***************************************************************************)
BinRange == 0 .. Bins - 1

\* f[lo] + ... + f[hi], by halving (lo <= hi)
RECURSIVE SumRange(_, _, _)
SumRange(f, lo, hi) ==
    IF lo = hi THEN f[lo]
    ELSE LET mid == (lo + hi) \div 2
         IN  SumRange(f, lo, mid) + SumRange(f, mid + 1, hi)
\* sum of all bins
HistSum(f) == SumRange(f, 0, Bins - 1)

\* np.bincount(tile.flatten(), minlength=256) / np.histogram(tile, 256, (0, 256))
\* (a value that does not occur in the tile has count 0)
Histogram(img, pixels) ==
    LET tile   == pixels
        values == {img[p] : p \in tile}
    IN  [i \in BinRange |->
            IF i \in values THEN Cardinality({p \in tile : img[p] = i}) ELSE 0]

\* headless line 50: max(1, int(clip_limit * tile_size / 256))
ClipLimitActualExact(c, n) == Max(1, RTrunc(RMul(c, Rat(n, Bins))))
\* numpy line 93: int((clip_limit * tile.size) / 256)
ClipValueNumpy(c, n) == RTrunc(RMul(c, Rat(n, Bins)))
\* a clip count that divides by the clip limit instead of multiplying
ClipCountInverted(e, c, n) == Max(1, RTrunc(RMul(Rat(c[2], c[1]), RInt(n))))

ClipCount(e, c, n) ==
    IF e = "exact" THEN ClipLimitActualExact(c, n) ELSE ClipValueNumpy(c, n)

\* headless lines 53-57, numpy lines 94-95
Excess(h, k) == HistSum([i \in BinRange |-> Max(h[i] - k, 0)])
ClipHist(h, k) == [i \in BinRange |-> Min(h[i], k)]

\* a redistribution that forgets the remainder excess % 256
RedistributeNoRemainder(h, ex) ==
    [i \in BinRange |-> h[i] + (ex \div Bins)]

\* a redistribution that puts the whole excess into bin 0
RedistributeIntoFirstBin(h, ex) ==
    [i \in BinRange |-> h[i] + (IF i = 0 THEN ex ELSE 0)]

\* headless lines 60-67 (skipped when excess = 0, which changes nothing),
\* numpy lines 98-101
Redistribute(h, ex) ==
    LET increment == ex \div Bins
        remainder == ex % Bins
    IN  [i \in BinRange |-> h[i] + increment + (IF i < remainder THEN 1 ELSE 0)]

(***************************************************************************)
(* CDF and lookup table                                                    *)
(***************************************************************************)
\* the running sums acc + h[lo], acc + h[lo] + h[lo + 1], ... up to hi, by halving
RECURSIVE CumsumSeq(_, _, _, _)
CumsumSeq(h, lo, hi, acc) ==
    IF lo = hi THEN <<acc + h[lo]>>
    ELSE LET mid  == (lo + hi) \div 2
             left == CumsumSeq(h, lo, mid, acc)
         IN  left \o CumsumSeq(h, mid + 1, hi, left[Len(left)])
\* np.cumsum(hist)
Cumsum(h) == LET s == CumsumSeq(h, 0, Bins - 1, 0) IN [i \in BinRange |-> s[i + 1]]

\* cdf[cdf > 0].min() if np.any(cdf > 0) else 0.  cdf is non-decreasing only
\* when hist >= 0, so the minimum is taken over all positive entries.
CdfMin(cdf) ==
    LET pos == {cdf[i] : i \in BinRange} \ {v \in {cdf[i] : i \in BinRange} : v <= 0}
    IN  IF pos = {} THEN 0 ELSE CHOOSE m \in pos : \A v \in pos : m <= v

\* np.arange(256)
Identity == [i \in BinRange |-> RInt(i)]

\* a table normalised without subtracting cdf_min
LookupTableExactNoMin(h) ==
    LET cdf     == Cumsum(h)
        cdf_max == cdf[Bins - 1]
    IN  IF cdf_max > 0
        THEN [i \in BinRange |-> Rat(cdf[i] * Uint8Max, cdf_max)]
        ELSE Identity

\* headless lines 70-79: float32 table
LookupTableExact(h) ==
    LET cdf     == Cumsum(h)
        cdf_min == CdfMin(cdf)
        cdf_max == cdf[Bins - 1]
    IN  IF cdf_max > cdf_min
        THEN [i \in BinRange |-> Rat((cdf[i] - cdf_min) * Uint8Max, cdf_max - cdf_min)]
        ELSE Identity

\* numpy lines 104-113: the float table before the cast
FloatTableNumpy(h, n) ==
    LET cdf         == Cumsum(h)
        cdf_min     == CdfMin(cdf)
        denominator == n - cdf_min
    IN  IF denominator > 0
        THEN [i \in BinRange |-> Rat((cdf[i] - cdf_min) * Uint8Max, denominator)]
        ELSE Identity

\* numpy lines 111, 113: the uint8 table
LookupTableNumpy(h, n, b) ==
    LET f == FloatTableNumpy(h, n)
    IN  [i \in BinRange |-> RInt(AsUint8(f[i], b))]

\* the cast of the numpy table meets a value outside [0, 255]
TableCastOutOfRange(e, h, n) ==
    /\ e = "numpy"
    /\ LET f == FloatTableNumpy(h, n) IN \E i \in BinRange : OutOfUint8(f[i])

LookupTable(e, h, n, b) ==
    IF e = "exact" THEN LookupTableExact(h) ELSE LookupTableNumpy(h, n, b)

(***************************************************************************)
(* Remap stage: one pixel                                                  *)
(***************************************************************************)
\* headless lines 87-104 along one axis of length n: the clamped tile
\* coordinate (i + 0.5) / (n / g) - 0.5, its integer part, fraction, neighbour
AxisExact(i, n, g) ==
    LET raw  == Rat((2 * i + 1) * g - n, 2 * n)
        t    == RMax(RInt(0), RMin(RInt(g - 1), raw))
        tint == RTrunc(t)
    IN  [low |-> tint, high |-> Min(tint + 1, g - 1), frac |-> RSub(t, RInt(tint))]

\* numpy lines 121-132 along one axis with tile extent size = n // g > 0:
\* (i + 0.5) / size - 0.5 is not clamped; only the low index is floored at 0
AxisNumpy(i, size, g) ==
    LET t   == Rat(2 * i + 1 - size, 2 * size)
        low == Max(RFloor(t), 0)
    IN  [low |-> low, high |-> Min(low + 1, g - 1), frac |-> RSub(t, RInt(low))]

\* a * (1 - f) + b * f
Lerp(a, b, f) == RAdd(RMul(a, RSub(RInt(1), f)), RMul(b, f))

\* headless lines 110-118, numpy lines 136-142
Bilinear(luts, ay, ax, v) ==
    LET top    == Lerp(luts[<<ay.low, ax.low>>][v], luts[<<ay.low, ax.high>>][v], ax.frac)
        bottom == Lerp(luts[<<ay.high, ax.low>>][v], luts[<<ay.high, ax.high>>][v], ax.frac)
    IN  Lerp(top, bottom, ay.frac)

\* the table indices a pixel reads are inside the G x G x 256 tensor
IndicesInRange(ay, ax, v, g) ==
    /\ {ay.low, ay.high, ax.low, ax.high} \subseteq 0 .. g - 1
    /\ v \in BinRange

\* headless lines 86-120: the float stored in result[y, x]
RemapExact(img, luts, h, w, g, p) ==
    LET ay == AxisExact(p[1], h, g)
        ax == AxisExact(p[2], w, g)
    IN  IF IndicesInRange(ay, ax, img[p], g)
        THEN [err |-> "none", val |-> Bilinear(luts, ay, ax, img[p]), ovf |-> FALSE]
        ELSE [err |-> "IndexError", val |-> RInt(0), ovf |-> FALSE]

\* numpy lines 120-143: the value stored in the uint8 array result[y, x];
\* ovf says that int(new_val) was outside [0, 255]
RemapNumpy(img, luts, h, w, g, p, b) ==
    IF h \div g = 0 \/ w \div g = 0
    THEN [err |-> "ZeroDivisionError", val |-> RInt(0), ovf |-> FALSE]
    ELSE LET ay == AxisNumpy(p[1], h \div g, g)
             ax == AxisNumpy(p[2], w \div g, g)
         IN  IF ~IndicesInRange(ay, ax, img[p], g)
             THEN [err |-> "IndexError", val |-> RInt(0), ovf |-> FALSE]
             ELSE LET new_val == RTrunc(Bilinear(luts, ay, ax, img[p]))
                  IN  IF new_val >= 0 /\ new_val <= Uint8Max
                      THEN [err |-> "none", val |-> RInt(new_val), ovf |-> FALSE]
                      ELSE IF b.assign = "raise"
                      THEN [err |-> "OverflowError", val |-> RInt(0), ovf |-> TRUE]
                      ELSE [err |-> "none", val |-> RInt(new_val % (Uint8Max + 1)),
                            ovf |-> TRUE]

RemapPixel(e, img, luts, h, w, g, p, b) ==
    IF e = "exact" THEN RemapExact(img, luts, h, w, g, p)
    ELSE RemapNumpy(img, luts, h, w, g, p, b)

\* headless line 122: np.clip(result, 0, 255).astype(np.uint8);
\* numpy line 145: result is already a uint8 array
FinalValue(e, r) ==
    IF e = "exact"
    THEN RTrunc(RMax(RInt(0), RMin(RInt(Uint8Max), r)))
    ELSE RTrunc(r)

(***************************************************************************)
(* State                                                                   *)
(***************************************************************************)
VARIABLES
    script,          \* the driver script that was started
    argc,            \* the number of command-line arguments, len(sys.argv) - 1
    argv_numeric,    \* whether float(sys.argv[3]) and int(sys.argv[4]) parse
    exit_code,       \* the exit status of the process, -1 while it runs
    engine,          \* the engine behind the script's apply_clahe_processing
    build,           \* what the run has observed of its platform (see Builds)
    rgb_array,       \* the decoded input image, pixel -> RGB8
    height, width,   \* its shape
    clip_limit,      \* argument, a rational
    tile_grid_size,  \* argument
    pc,              \* position in apply_clahe_processing / the engine
    lab_array,       \* pixel -> [L, a, b]
    l_channel,       \* the 8-bit grid handed to the engine ("image")
    lookup_tables,   \* <<tile_y, tile_x>> -> table
    writes,          \* <<tile_y, tile_x>> -> how often the tile loop stored its table
    tile_y, tile_x,  \* loop counters of the histogram / LUT stage
    tile_size,       \* tile.size of the current tile
    hist,            \* the current tile's histogram
    excess,          \* the count removed by clipping the current tile
    y, x,            \* loop counters of the remap stage
    result,          \* the engine's result array
    enhanced_l,      \* the grid the engine returned
    err,             \* the exception being propagated, or "none"
    outcome          \* the dictionary apply_clahe_processing returned

vars == <<script, argc, argv_numeric, exit_code, engine, build, rgb_array, height,
          width, clip_limit, tile_grid_size,
          pc, lab_array, l_channel, lookup_tables, writes, tile_y, tile_x, tile_size,
          hist, excess, y, x, result, enhanced_l, err, outcome>>

inputs == <<script, argc, argv_numeric, engine, rgb_array, height, width, clip_limit,
            tile_grid_size>>
tileVars == <<tile_y, tile_x, tile_size, hist, excess>>

Pixels(h, w) == (0 .. h - 1) \X (0 .. w - 1)

\* the input images: a uniform background with one streak (consecutive
\* pixels in row-major order) of at most MaxStreak pixels of another colour
Images(h, w) ==
    {[p \in Pixels(h, w) |->
         IF p[1] * w + p[2] >= from /\ p[1] * w + p[2] < from + len THEN s ELSE bg] :
        bg \in Palette, s \in Palette, from \in 0 .. h * w - 1, len \in 0 .. MaxStreak}

ZeroHist == [i \in BinRange |-> 0]
None == <<>>

\* the engine a script's apply_clahe_processing calls; clahe_exact.py and
\* clahe_processor.py hand the image to the cv2 library
EngineOf(s) ==
    CASE s = "clahe_opencv_headless" -> "exact"
      [] s = "numpy_clahe"           -> "numpy"
      [] OTHER                       -> "cv2"

\* the value len(sys.argv) is compared with in main
RequiredArgvLen(s) == IF s = "clahe_processor" THEN 6 ELSE 5

Init ==
    /\ script \in Scripts
    /\ argc \in ArgCounts
    /\ argv_numeric \in BOOLEAN
    /\ exit_code = -1
    /\ engine = EngineOf(script)
    /\ build = UnknownBuild
    /\ height = 0
    /\ width = 0
    /\ rgb_array = None
    /\ clip_limit \in ClipLimits
    /\ tile_grid_size \in GridSizes
    /\ pc = "main"
    /\ lab_array = None
    /\ l_channel = None
    /\ lookup_tables = None
    /\ writes = None
    /\ tile_y = 0 /\ tile_x = 0 /\ tile_size = 0
    /\ hist = ZeroHist
    /\ excess = 0
    /\ y = 0 /\ x = 0
    /\ result = None
    /\ enhanced_l = None
    /\ err = "none"
    /\ outcome = None

(***************************************************************************)
(* main, up to the call of apply_clahe_processing                          *)
(***************************************************************************)
\* main: the argument-count check (usage message and sys.exit(1)), then
\* float(sys.argv[3]) and int(sys.argv[4]), whose ValueError nothing catches
\* (the interpreter prints the traceback and exits with status 1)
Main ==
    /\ pc = "main"
    /\ IF argc + 1 # RequiredArgvLen(script)
       THEN /\ outcome' = [success |-> FALSE, error |-> "Usage"]
            /\ exit_code' = 1
            /\ pc' = "exit"
            /\ UNCHANGED err
       ELSE IF ~argv_numeric
       THEN /\ err' = "ValueError"
            /\ exit_code' = 1
            /\ pc' = "exit"
            /\ UNCHANGED outcome
       ELSE /\ pc' = "open"
            /\ UNCHANGED <<outcome, exit_code, err>>
    /\ UNCHANGED <<inputs, build, lab_array, l_channel, lookup_tables, writes, tileVars,
                   y, x,
                   result, enhanced_l>>

(***************************************************************************)
(* apply_clahe_processing, up to the call of the engine                    *)
(***************************************************************************)
\* headless lines 204-208, numpy lines 153-157: Image.open, convert and
\* np.array give the pixels of the file, or Image.open raises for a file
\* that is not an image
OpenImage ==
    /\ pc = "open"
    /\ engine \in Engines
    /\ \/ /\ height' \in 1 .. MaxH
          /\ width' \in 1 .. MaxW
          /\ rgb_array' \in Images(height', width')
          /\ pc' = "rgb_to_lab"
          /\ UNCHANGED err
       \/ /\ err' = "UnidentifiedImageError"
          /\ pc' = "except"
          /\ UNCHANGED <<height, width, rgb_array>>
    /\ UNCHANGED <<script, argc, argv_numeric, exit_code, engine, clip_limit,
                   tile_grid_size, build, lab_array, l_channel, lookup_tables,
                   writes, tileVars, y, x, result, enhanced_l, outcome>>

\* clahe_exact.py lines 30-82, clahe_processor.py lines 9-53: the whole of
\* apply_clahe_processing; what cv2 computes is not modelled, the function
\* returns the success dictionary or, from its except clause, the failure one
ProcessWithCv2 ==
    /\ pc = "open"
    /\ engine = "cv2"
    /\ outcome' \in {[success |-> TRUE], [success |-> FALSE, error |-> "Exception"]}
    /\ pc' = "cv2_returned"
    /\ UNCHANGED <<inputs, exit_code, writes,
                   build, lab_array, l_channel, lookup_tables,
                   tileVars, y, x, result, enhanced_l, err>>

\* headless line 211, numpy line 160
RgbToLab ==
    /\ pc = "rgb_to_lab"
    /\ lab_array' = [p \in Pixels(height, width) |-> ToLab(engine, rgb_array[p])]
    /\ pc' = "extract_l"
    /\ UNCHANGED <<inputs, exit_code, writes,
                   build, l_channel, lookup_tables, tileVars, y, x, result,
                   enhanced_l, err, outcome>>

\* headless line 214, numpy line 163
ExtractLChannel ==
    /\ pc = "extract_l"
    /\ \E r \in (IF \E p \in Pixels(height, width) :
                         OutOfUint8(LScaled(engine, lab_array[p]))
                  THEN CastResolutions(build) ELSE {build}) :
          /\ l_channel' = [p \in Pixels(height, width) |-> ExtractL(engine, lab_array[p], r)]
          /\ build' = r
    /\ pc' = "engine"
    /\ UNCHANGED <<inputs, exit_code, writes,
                   lab_array, lookup_tables, tileVars, y, x, result,
                   enhanced_l, err, outcome>>

(***************************************************************************)
(* The engine: apply_clahe_exact_opencv / apply_clahe_numpy                *)
(***************************************************************************)
\* tile loops that stop after the first row of tiles
AfterTileFirstRowOnly ==
    IF tile_x + 1 < tile_grid_size
    THEN [pc |-> "tile_hist", ty |-> tile_y, tx |-> tile_x + 1]
    ELSE [pc |-> "remap", ty |-> tile_y, tx |-> tile_x]

\* the next position of the tile loops after tile (tile_y, tile_x)
AfterTile ==
    IF tile_x + 1 < tile_grid_size
    THEN [pc |-> "tile_hist", ty |-> tile_y, tx |-> tile_x + 1]
    ELSE IF tile_y + 1 < tile_grid_size
    THEN [pc |-> "tile_hist", ty |-> tile_y + 1, tx |-> 0]
    ELSE [pc |-> "remap", ty |-> tile_y, tx |-> tile_x]

\* headless lines 14-29, numpy lines 70-77: the tile dimensions (height //
\* tile_grid_size raises ZeroDivisionError for tile_grid_size = 0) and the
\* zero-filled table tensor
EngineEntry ==
    /\ pc = "engine"
    /\ IF tile_grid_size = 0
       THEN /\ err' = "ZeroDivisionError"
            /\ pc' = "except"
            /\ UNCHANGED <<lookup_tables, writes>>
       ELSE /\ lookup_tables' =
                  [t \in (0 .. tile_grid_size - 1) \X (0 .. tile_grid_size - 1) |->
                      [i \in BinRange |-> RInt(0)]]
            /\ writes' =
                  [t \in (0 .. tile_grid_size - 1) \X (0 .. tile_grid_size - 1) |-> 0]
            /\ pc' = "tile_hist"
            /\ UNCHANGED err
    /\ UNCHANGED <<inputs, exit_code, build, lab_array, l_channel, tileVars, y, x, result,
                   enhanced_l, outcome>>

\* headless lines 33-47, numpy lines 82-90: extract the tile, count its values.
\* The headless engine skips an empty tile (line 43).
TileHistogram ==
    /\ pc = "tile_hist"
    /\ LET tile == TilePixels(engine, height, width, tile_grid_size, tile_y, tile_x)
       IN  /\ tile_size' = Cardinality(tile)
           /\ hist' = Histogram(l_channel, tile)
           /\ IF engine = "exact" /\ tile = {}
              THEN /\ pc' = AfterTile.pc
                   /\ tile_y' = AfterTile.ty
                   /\ tile_x' = AfterTile.tx
              ELSE /\ pc' = "tile_clip"
                   /\ UNCHANGED <<tile_y, tile_x>>
    /\ excess' = 0
    /\ UNCHANGED <<inputs, exit_code, writes,
                   build, lab_array, l_channel, lookup_tables, y, x, result,
                   enhanced_l, err, outcome>>

\* headless lines 50-57, numpy lines 93-95
TileClip ==
    /\ pc = "tile_clip"
    /\ LET k == ClipCount(engine, clip_limit, tile_size)
       IN  /\ excess' = Excess(hist, k)
           /\ hist' = ClipHist(hist, k)
    /\ pc' = "tile_redist"
    /\ UNCHANGED <<inputs, exit_code, writes,
                   build, lab_array, l_channel, lookup_tables, tile_y, tile_x,
                   tile_size, y, x, result, enhanced_l, err, outcome>>

\* headless lines 60-67, numpy lines 98-101
TileRedistribute ==
    /\ pc = "tile_redist"
    /\ hist' = Redistribute(hist, excess)
    /\ pc' = "tile_lut"
    /\ UNCHANGED <<inputs, exit_code, writes,
                   build, lab_array, l_channel, lookup_tables, tile_y, tile_x,
                   tile_size, excess, y, x, result, enhanced_l, err, outcome>>

\* headless lines 70-79, numpy lines 104-113; then the next tile, or after
\* the last one the copy of the image the remap stage writes (line 82 / 116)
TileLookupTable ==
    /\ pc = "tile_lut"
    /\ \E r \in (IF TableCastOutOfRange(engine, hist, tile_size)
                  THEN CastResolutions(build) ELSE {build}) :
          /\ lookup_tables' = [lookup_tables EXCEPT ![<<tile_y, tile_x>>] =
                                  LookupTable(engine, hist, tile_size, r)]
          /\ build' = r
    /\ writes' = [writes EXCEPT ![<<tile_y, tile_x>>] = @ + 1]
    /\ pc' = AfterTile.pc
    /\ tile_y' = AfterTile.ty
    /\ tile_x' = AfterTile.tx
    /\ result' = IF AfterTile.pc = "remap"
                 THEN [p \in Pixels(height, width) |-> RInt(l_channel[p])]
                 ELSE result
    /\ UNCHANGED <<inputs, exit_code, lab_array, l_channel, tile_size, hist, excess, y, x,
                   enhanced_l, err, outcome>>

\* headless lines 84-120, numpy lines 118-143: one iteration of the pixel loops
Remap ==
    /\ pc = "remap"
    /\ \E b \in (IF RemapPixel(engine, l_channel, lookup_tables, height, width,
                             tile_grid_size, <<y, x>>, build).ovf
                  THEN AssignResolutions(build) ELSE {build}) :
          LET r == RemapPixel(engine, l_channel, lookup_tables, height, width,
                              tile_grid_size, <<y, x>>, b)
          IN  /\ build' = b
              /\ IF r.err # "none"
                 THEN /\ err' = r.err
                      /\ pc' = "except"
                      /\ UNCHANGED <<y, x, result>>
                 ELSE /\ result' = [result EXCEPT ![<<y, x>>] = r.val]
                      /\ UNCHANGED err
                      /\ IF x + 1 < width
                         THEN /\ x' = x + 1 /\ UNCHANGED <<y, pc>>
                         ELSE IF y + 1 < height
                         THEN /\ x' = 0 /\ y' = y + 1 /\ UNCHANGED pc
                         ELSE /\ pc' = "engine_return" /\ UNCHANGED <<y, x>>
    /\ UNCHANGED <<inputs, exit_code, writes,
                   lab_array, l_channel, lookup_tables, tileVars,
                   enhanced_l, outcome>>

\* headless line 122, numpy line 145
EngineReturn ==
    /\ pc = "engine_return"
    /\ enhanced_l' = [p \in Pixels(height, width) |-> FinalValue(engine, result[p])]
    /\ pc' = "put_back"
    /\ UNCHANGED <<inputs, exit_code, writes,
                   build, lab_array, l_channel, lookup_tables, tileVars, y, x,
                   result, err, outcome>>

(***************************************************************************)
(* apply_clahe_processing, after the engine                                *)
(***************************************************************************)
\* headless line 220, numpy line 169: only channel 0 is assigned
PutBack ==
    /\ pc = "put_back"
    /\ lab_array' = [p \in Pixels(height, width) |->
                        PutBackL(engine, lab_array[p], enhanced_l[p])]
    /\ pc' = "lab_to_rgb"
    /\ UNCHANGED <<inputs, exit_code, writes,
                   build, l_channel, lookup_tables, tileVars, y, x, result,
                   enhanced_l, err, outcome>>

\* headless lines 223-242, numpy lines 172-191: convert back, save, metrics
\* and the success dictionary (the RGB values of the output are not modelled)
ReturnSuccess ==
    /\ pc = "lab_to_rgb"
    /\ outcome' = [success |-> TRUE]
    /\ pc' = "done"
    /\ UNCHANGED <<inputs, exit_code, writes,
                   build, lab_array, l_channel, lookup_tables, tileVars, y, x,
                   result, enhanced_l, err>>

\* headless lines 244-248, numpy lines 193-197
ReturnFailure ==
    /\ pc = "except"
    /\ outcome' = [success |-> FALSE, error |-> err]
    /\ pc' = "done"
    /\ UNCHANGED <<inputs, exit_code, writes,
                   build, lab_array, l_channel, lookup_tables, tileVars, y, x,
                   result, enhanced_l, err>>

\* main, after apply_clahe_processing returned: print(json.dumps(result)) and
\* the end of main, so the process exits with status 0
PrintResult ==
    /\ pc \in {"done", "cv2_returned"}
    /\ exit_code' = 0
    /\ pc' = "exit"
    /\ UNCHANGED <<inputs, build, lab_array, l_channel, lookup_tables, writes, tileVars,
                   y, x,
                   result, enhanced_l, err, outcome>>

Next ==
    \/ Main
    \/ OpenImage
    \/ ProcessWithCv2
    \/ PrintResult
    \/ RgbToLab
    \/ ExtractLChannel
    \/ EngineEntry
    \/ TileHistogram
    \/ TileClip
    \/ TileRedistribute
    \/ TileLookupTable
    \/ Remap
    \/ EngineReturn
    \/ PutBack
    \/ ReturnSuccess
    \/ ReturnFailure

Spec == Init /\ [][Next]_vars

(***************************************************************************)
(* Properties                                                              *)
(***************************************************************************)
\* the contract of a call: H >= G, W >= G, 2 <= G <= 16, c >= 1.0
WellFormed ==
    /\ tile_grid_size >= 2 /\ tile_grid_size <= 16
    /\ height >= tile_grid_size /\ width >= tile_grid_size
    /\ RLe(RInt(1), clip_limit)

\* C1: in both engines the histogram of a tile of N >= 1 pixels sums to N
\* before clipping and again after clipping and redistributing; between the
\* two, the clipped histogram and the excess together hold N.
HistogramMassPreserved ==
    tile_size >= 1 =>
        /\ pc \in {"tile_clip", "tile_lut"} => HistSum(hist) = tile_size
        /\ pc = "tile_redist" => HistSum(hist) + excess = tile_size

\* a tile in each engine has been clipped with a remainder to spread
HistogramMassWitness ==
    /\ pc = "tile_lut"
    /\ excess % Bins > 0
    /\ tile_size >= 2
    /\ HistSum(hist) = tile_size

Uniform(img) == \A p \in DOMAIN img : \A q \in DOMAIN img : img[p] = img[q]

\* C2: a uniform L grid run through apply_clahe_exact_opencv with clip limit
\* 1.0 and any G with H >= G and W >= G comes back unchanged.
UniformImageIdentity ==
    ( /\ engine = "exact"
      /\ pc = "put_back"
      /\ clip_limit = <<1, 1>>
      /\ tile_grid_size >= 1
      /\ height >= tile_grid_size /\ width >= tile_grid_size
      /\ Uniform(l_channel) )
    => enhanced_l = l_channel

\* C3: the a and b values handed to LAB -> RGB are those RGB -> LAB produced.
ChromaUnchanged ==
    pc \in {"lab_to_rgb", "done"} /\ err = "none" =>
        \A p \in Pixels(height, width) :
            /\ lab_array[p].a = ToLab(engine, rgb_array[p]).a
            /\ lab_array[p].b = ToLab(engine, rgb_array[p]).b

\* the write-back has changed the L of a pixel whose a and b are not zero
ChromaUnchangedWitness ==
    /\ pc = "lab_to_rgb"
    /\ \E p \in Pixels(height, width) :
          /\ lab_array[p].L # ToLab(engine, rgb_array[p]).L
          /\ lab_array[p].a # 0
          /\ lab_array[p].b # 0

Tiles == (0 .. tile_grid_size - 1) \X (0 .. tile_grid_size - 1)

\* C4: every entry of every table apply_clahe_exact_opencv stores lies in
\* [0, 255], for every clip limit c >= 1 (checked on well-formed calls).
LookupTablesInRange ==
    engine = "exact" /\ lookup_tables # None /\ WellFormed =>
        \A t \in Tiles : \A i \in BinRange :
            /\ RLe(RInt(0), lookup_tables[t][i])
            /\ RLe(lookup_tables[t][i], RInt(Uint8Max))

\* C5: every stored table is non-decreasing, in both engines (checked on
\* well-formed calls).
LookupTablesMonotone ==
    lookup_tables # None /\ WellFormed =>
        \A t \in Tiles : \A i \in 0 .. Bins - 2 :
            RLe(lookup_tables[t][i], lookup_tables[t][i + 1])

\* C6: a call with tile_grid_size < 1, an image smaller than the grid, or
\* clip_limit < 1.0 ends in an error result.
InvalidParametersRejected ==
    ( /\ pc = "done"
      /\ \/ tile_grid_size < 1
         \/ height < tile_grid_size
         \/ width < tile_grid_size
         \/ RLt(clip_limit, RInt(1)) )
    => outcome.success = FALSE

\* C7: a well-formed call does not fail at runtime: no division by zero, and
\* every table access of the remap stage has tile indices in [0, G-1] and a
\* value index in [0, 255], in both engines.
WellFormedCallCompletes ==
    WellFormed => err \notin {"ZeroDivisionError", "IndexError"}

\* the value the remap stage interpolates for pixel p from the stored tables
InterpolatedAt(p) ==
    IF engine = "exact"
    THEN Bilinear(lookup_tables, AxisExact(p[1], height, tile_grid_size),
                  AxisExact(p[2], width, tile_grid_size), l_channel[p])
    ELSE Bilinear(lookup_tables,
                  AxisNumpy(p[1], height \div tile_grid_size, tile_grid_size),
                  AxisNumpy(p[2], width \div tile_grid_size, tile_grid_size),
                  l_channel[p])

\* C8: the returned grid has the shape of the input and every value is the
\* interpolated value clamped to [0, 255] (as an integer), never wrapped.
OutputSameShapeAndClamped ==
    pc = "put_back" /\ WellFormed =>
        /\ DOMAIN enhanced_l = DOMAIN l_channel
        /\ \A p \in DOMAIN enhanced_l :
              /\ enhanced_l[p] \in 0 .. Uint8Max
              /\ enhanced_l[p] =
                     RTrunc(RMax(RInt(0), RMin(RInt(Uint8Max), InterpolatedAt(p))))

\* a build the run may be executing on
TheBuild == CHOOSE r \in Resolutions(build) : TRUE

\* the table of tile t as a function of the inputs alone
TileTable(t) ==
    LET tile == TilePixels(engine, height, width, tile_grid_size, t[1], t[2])
        n    == Cardinality(tile)
        h0   == Histogram(l_channel, tile)
        k    == ClipCount(engine, clip_limit, n)
    IN  IF engine = "exact" /\ tile = {}
        THEN [i \in BinRange |-> RInt(0)]
        ELSE LookupTable(engine, Redistribute(ClipHist(h0, k), Excess(h0, k)), n, TheBuild)

\* the tables as a function of the inputs alone
TileTables == [t \in Tiles |-> TileTable(t)]

\* the output grid that the tables luts give for the L grid
EngineOutput(luts) ==
    [p \in Pixels(height, width) |->
        FinalValue(engine, RemapPixel(engine, l_channel, luts, height, width,
                                      tile_grid_size, p, TheBuild).val)]

MaxBin(h) == CHOOSE m \in {h[i] : i \in BinRange} : \A i \in BinRange : h[i] <= m

\* the current tile's histogram as counted, before clipping
RawHist ==
    Histogram(l_channel,
              TilePixels(engine, height, width, tile_grid_size, tile_y, tile_x))

\* C10 as stated: with the tile content fixed, a larger clip limit cannot
\* increase the maximum bin count after clipping.
ClipMaxNotIncreasing ==
    pc = "tile_redist" =>
        \A c2 \in ClipLimits :
            RLt(clip_limit, c2) =>
                MaxBin(ClipHist(RawHist, ClipCount(engine, c2, tile_size))) <= MaxBin(hist)

\* C10 amended: with the tile content fixed, a larger clip limit cannot
\* decrease the maximum bin count of the clipped histogram (before
\* redistribution).
ClipMaxNotDecreasing ==
    pc = "tile_redist" =>
        \A c2 \in ClipLimits :
            RLt(clip_limit, c2) =>
                MaxBin(ClipHist(RawHist, ClipCount(engine, c2, tile_size))) >= MaxBin(hist)

\* a tile was clipped below the maximum a larger clip limit leaves it
ClipMaxWitness ==
    /\ pc = "tile_redist"
    /\ excess > 0
    /\ \E c2 \in ClipLimits :
          /\ RLt(clip_limit, c2)
          /\ MaxBin(ClipHist(RawHist, ClipCount(engine, c2, tile_size))) > MaxBin(hist)

\* the clip count of the current tile
CurrentClipCount == ClipCount(engine, clip_limit, tile_size)

\* ceil(n / Bins) for n >= 0
CeilShare(n) == (n + Bins - 1) \div Bins

\* C11: when the table of a tile is computed, every bin of its histogram is
\* at most k + ceil(excess / 256), and the histogram is the clipped one after
\* exactly one redistribution pass: a bin above k is left as it is.
ClipPlusShareBound ==
    pc = "tile_lut" =>
        LET k     == CurrentClipCount
            bound == k + CeilShare(excess)
            raw   == RawHist
        IN  /\ \A i \in BinRange : hist[i] <= bound
            /\ hist = Redistribute(ClipHist(raw, k), Excess(raw, k))

\* a tile of the headless engine whose table is computed from a histogram
\* with a bin above k
ClipPlusShareWitness ==
    /\ pc = "tile_lut"
    /\ engine = "exact"
    /\ excess > 0
    /\ \E i \in BinRange : hist[i] > CurrentClipCount

EngineScripts == {"numpy_clahe", "clahe_opencv_headless"}

\* C13: when main of numpy_clahe.py or clahe_opencv_headless.py has ended,
\* the exit status is 0 exactly when the printed result has success = true,
\* and 1 on every failure (argument count, undecodable input, invalid
\* parameters).
ExitCodeReflectsSuccess ==
    pc = "exit" /\ script \in EngineScripts =>
        /\ exit_code = 0 <=> (outcome # None /\ outcome.success)
        /\ exit_code = 1 <=> ~(outcome # None /\ outcome.success)

\* the dictionary main prints on its usage-error path
UsageError == [success |-> FALSE, error |-> "Usage"]

\* C14: each of the four driver scripts takes the usage-error path exactly
\* when the number of command-line arguments differs from four; with four
\* arguments it goes on to parse them and to process.
FourArgumentsAccepted ==
    pc # "main" => (outcome = UsageError <=> argc # 4)

\* max(1, floor(c * n / 256))
SpecifiedClipCount(c, n) == Max(1, RFloor(RMul(c, Rat(n, Bins))))

\* C15: in both engines a tile of N >= 1 pixels is clipped at
\* k = max(1, floor(c * N / 256)): after the clip step the histogram is the
\* counted one capped at k and the excess is what the cap removed (checked on
\* well-formed calls).
ClipCountAtLeastOne ==
    pc = "tile_redist" /\ tile_size >= 1 /\ WellFormed =>
        LET k == SpecifiedClipCount(clip_limit, tile_size)
        IN  /\ hist = ClipHist(RawHist, k)
            /\ excess = Excess(RawHist, k)

\* C16: on a well-formed call the tiles the histogram stage extracts cover
\* the image: every pixel lies in the region of at least one tile, in both
\* engines, also when H or W is not a multiple of G.
TilesCoverImage ==
    pc = "tile_hist" /\ WellFormed =>
        \A p \in Pixels(height, width) :
            \E t \in Tiles :
                p \in TilePixels(engine, height, width, tile_grid_size, t[1], t[2])

\* rows [ty * floor(H/G), min((ty + 1) * floor(H/G), H)) and the columns alike
SpecifiedRegion(ty, tx) ==
    LET th == height \div tile_grid_size
        tw == width \div tile_grid_size
    IN  {p \in Pixels(height, width) :
            /\ ty * th <= p[1] /\ p[1] < Min((ty + 1) * th, height)
            /\ tx * tw <= p[2] /\ p[2] < Min((tx + 1) * tw, width)}

\* C17: on a well-formed call apply_clahe_exact_opencv counts for tile
\* (ty, tx) exactly the pixels of rows [ty * floor(H/G), min((ty+1) *
\* floor(H/G), H)) and the columns alike, and no pixel belongs to two tiles.
ExactTileRegion ==
    engine = "exact" /\ pc = "tile_clip" /\ WellFormed =>
        /\ tile_size = Cardinality(SpecifiedRegion(tile_y, tile_x))
        /\ hist = Histogram(l_channel, SpecifiedRegion(tile_y, tile_x))
        /\ \A t \in Tiles : \A u \in Tiles :
              t # u => TilePixels(engine, height, width, tile_grid_size, t[1], t[2])
                         \cap TilePixels(engine, height, width, tile_grid_size, u[1], u[2])
                       = {}

\* the indices and the weight the remap stage derives along one axis
Axis(e, i, n, g) ==
    IF e = "exact" THEN AxisExact(i, n, g) ELSE AxisNumpy(i, n \div g, g)

\* the pixels the remap loops have already written
Remapped ==
    {p \in Pixels(height, width) :
        pc = "engine_return" \/ p[1] < y \/ (p[1] = y /\ p[2] < x)}

\* the four table entries pixel p reads
EntriesRead(p) ==
    LET ay == Axis(engine, p[1], height, tile_grid_size)
        ax == Axis(engine, p[2], width, tile_grid_size)
    IN  {lookup_tables[<<r, c>>][l_channel[p]] : r \in {ay.low, ay.high},
                                                 c \in {ax.low, ax.high}}

\* the continuous tile coordinate (i + 0.5) / (n / g) - 0.5 is outside [0, g - 1]:
\* the pixel is within half a tile of the image edge
NearEdge(i, n, g) ==
    LET raw == Rat((2 * i + 1) * g - n, 2 * n)
    IN  RLe(raw, RInt(0)) \/ RLe(RInt(g - 1), raw)

\* C18: on a well-formed call, for every remapped pixel both weights lie in
\* [0, 1), the stored value lies between the smallest and the largest of the
\* four table entries read, and within half a tile of an image edge the
\* weight along that axis is 0; in both engines.
RemapWeightsClamped ==
    pc \in {"remap", "engine_return"} /\ WellFormed =>
        \A p \in Remapped :
            LET ay == Axis(engine, p[1], height, tile_grid_size)
                ax == Axis(engine, p[2], width, tile_grid_size)
            IN  /\ RLe(RInt(0), ay.frac) /\ RLt(ay.frac, RInt(1))
                /\ RLe(RInt(0), ax.frac) /\ RLt(ax.frac, RInt(1))
                /\ \E lo \in EntriesRead(p) : RLe(lo, result[p])
                /\ \E hi \in EntriesRead(p) : RLe(result[p], hi)
                /\ NearEdge(p[1], height, tile_grid_size) => ay.frac = RInt(0)
                /\ NearEdge(p[2], width, tile_grid_size) => ax.frac = RInt(0)

\* round(p): the nearest integer, halves upward
RRound(p) == RFloor(RAdd(p, Rat(1, 2)))

\* round(L * 255 / 100), clamped to [0, 255]
SpecifiedLGrid(L) == Max(0, Min(Uint8Max, RRound(RMul(L, Rat(Uint8Max, 100)))))

\* value * 100 / 255
SpecifiedLightness(v) == Rat(v * 100, Uint8Max)

\* C19: the 8-bit grid handed to the engine is round(L * 255 / 100) clamped
\* to [0, 255], the L written back is value * 100 / 255, and a value the
\* engine leaves unchanged comes back as its L within the rounding error of
\* the quantisation (half a step of 100 / 255).
LightnessScaledTo255 ==
    /\ pc = "engine" =>
          \A p \in Pixels(height, width) :
              l_channel[p] = SpecifiedLGrid(lab_array[p].L)
    /\ pc = "lab_to_rgb" =>
          \A p \in Pixels(height, width) :
              /\ lab_array[p].L = SpecifiedLightness(enhanced_l[p])
              /\ enhanced_l[p] = l_channel[p] =>
                    LET L0 == ToLab(engine, rgb_array[p]).L
                        d  == RSub(lab_array[p].L, L0)
                    IN  RLe(Rat(-50, Uint8Max), d) /\ RLe(d, Rat(50, Uint8Max))

\* the float table of tile t before any cast, from the inputs
FloatTable(t) ==
    LET tile == TilePixels(engine, height, width, tile_grid_size, t[1], t[2])
        n    == Cardinality(tile)
        h0   == Histogram(l_channel, tile)
        k    == ClipCount(engine, clip_limit, n)
        h    == Redistribute(ClipHist(h0, k), Excess(h0, k))
    IN  IF engine = "exact" THEN LookupTableExact(h) ELSE FloatTableNumpy(h, n)

\* C20: values are rounded to nearest, not truncated: on a well-formed call
\* every stored table entry whose normalised value lies in [0, 255] is that
\* value rounded, and every output pixel is the bilinear combination of the
\* four entries rounded (within [0, 255]).
RoundedNotTruncated ==
    /\ pc = "remap" /\ y = 0 /\ x = 0 /\ WellFormed =>
          \A t \in Tiles :
              LET f == FloatTable(t)
              IN  \A i \in BinRange :
                      RLe(RInt(0), f[i]) /\ RLe(f[i], RInt(Uint8Max)) =>
                          lookup_tables[t][i] = RInt(RRound(f[i]))
    /\ pc = "put_back" /\ WellFormed =>
          \A p \in Pixels(height, width) :
              LET v == InterpolatedAt(p)
              IN  RLe(RInt(0), v) /\ RLe(v, RInt(Uint8Max)) => enhanced_l[p] = RRound(v)

\* the tiles the tile loops have finished before reaching (tile_y, tile_x)
TilesDone ==
    {t \in Tiles : t[1] < tile_y \/ (t[1] = tile_y /\ t[2] < tile_x)}

\* C21: in one call of apply_clahe_exact_opencv on an image with H, W >= 1
\* every table is stored exactly once, by the iteration of its own tile (no
\* tile is empty and skipped); when the remap stage starts all G x G tables
\* have been stored, and none is stored again from then on.
TablesWrittenOnceBeforeRemap ==
    engine = "exact" /\ writes # None =>
        IF pc \in {"tile_hist", "tile_clip", "tile_redist", "tile_lut"}
        THEN /\ \A t \in Tiles : writes[t] = (IF t \in TilesDone THEN 1 ELSE 0)
             /\ pc # "tile_hist" => tile_size >= 1
        ELSE \A t \in Tiles : writes[t] = 1

\* the remap stage of the headless engine has read tables for an image
\* smaller than the tile grid
TablesWrittenWitness ==
    /\ engine = "exact"
    /\ pc = "remap"
    /\ x > 0
    /\ height < tile_grid_size
    /\ \A t \in Tiles : writes[t] = 1

\* C22: on a well-formed call the lightness written back into the LAB image
\* after the engine lies in [0, 100] for every pixel, in both files.
WrittenBackLightnessInRange ==
    pc = "lab_to_rgb" /\ WellFormed =>
        \A p \in Pixels(height, width) :
            RLe(RInt(0), lab_array[p].L) /\ RLe(lab_array[p].L, RInt(100))
=============================================================================
